---- MODULE Spec2Model ----
(***************************************************************************)
(* Model of the map editor (japraj/mapEditor): the EditableCanvas class    *)
(* of src/src/Canvas.ts, the cell registry of src/src/index.ts and the     *)
(* input layer of src/unnamed/part_004 (Input.ts).                         *)
(*                                                                         *)
(* A JavaScript array is a length plus the set of indices that hold a      *)
(* value: the grid is [length, rows] where rows is a function whose        *)
(* domain is the set of row indices that are present (a negative index is  *)
(* a plain property of the array object: present, but outside the length). *)
(* A row is a sequence of cells (column c is element c + 1); a slot that   *)
(* holds no value is UNDEFINED.                                            *)
(***************************************************************************)
EXTENDS Integers, Sequences, FiniteSets, TLC

VARIABLES map, spawnPos, cellLen, cursorRadius, input, celldata, canvas,
          draws, downloads, thrown, rafScheduled, last, pre, events

vars == <<map, spawnPos, cellLen, cursorRadius, input, celldata, canvas,
          draws, downloads, thrown, rafScheduled, last, pre, events>>

----------------------------------------------------------------------------
(* Cell registry                                                           *)

AIR == 0
GRASS == 1
DIRT == 2
RESOURCE == 3
ICE == 4
FIRE == 5
STONE == 6
RES_HEAL == 7
RES_HEX == 8
RES_OCT == 9
ENEMY_PENT == 10
ENEMY_SEPT == 11
ENEMY_FLY == 12
PLATFORM == 13
CRUSHER == 14
YEETER == 15
LAVA == 16
SPAWN_POS == 999

\* What reading an absent array slot or an omitted argument yields.
UNDEFINED == -1

\* JSON null (what JSON.stringify writes for an undefined array slot).
NULL == -2

\* The types whose definition carries celldata: true.
celldataTypes == {RESOURCE, RES_HEAL}

cellColors ==
  << \ha0ced9, \hadf7b6, \h581f18, \hfcf5c7, \hdbf7ff, \hff7d00, \h9b9ea1,
     \hddff9e, \h6ea4f4, \he004b4, \hff9eac, \hff6b6b, \h800080, \h000000,
     \hff0000, \h13344c, \hbf5c00 >>

CELL_DEFNS ==
  [i \in 1..Len(cellColors) |->
     [type |-> i - 1, color |-> cellColors[i], celldata |-> (i - 1) \in celldataTypes]]

\* CELL_DEFNS[v] is an object (not undefined) exactly for these v.
IsCellType(v) == v \in 0..(Len(CELL_DEFNS) - 1)

CellDef(v) == CELL_DEFNS[v + 1]

\* A check that looks at the first entry only.
ConsistentFirstOnly(defs) == defs[1].type = 0

\* The forEach of validateCellDefs finds no entry whose type differs from its
\* index in registry defs (it throws at the first one that does).
Consistent(defs) == \A i \in 1..Len(defs) : defs[i].type = i - 1

validateCellDefs == Consistent(CELL_DEFNS)

SPAWN_POS_COLOR == \h00ffff
initialCellLen == 10
scrollX == 0
scrollY == 0

----------------------------------------------------------------------------
(* JavaScript arithmetic and formatting                                    *)

\* a % b of JavaScript for b > 0: the result has the sign of a.
JsRem(a, b) == IF a >= 0 THEN a % b ELSE -((-a) % b)

\* Math.floor(a / b) for b > 0.
MathFloorDiv(a, b) == a \div b

HexDigit(d) ==
  CASE d = 0 -> "0" [] d = 1 -> "1" [] d = 2 -> "2" [] d = 3 -> "3"
    [] d = 4 -> "4" [] d = 5 -> "5" [] d = 6 -> "6" [] d = 7 -> "7"
    [] d = 8 -> "8" [] d = 9 -> "9" [] d = 10 -> "a" [] d = 11 -> "b"
    [] d = 12 -> "c" [] d = 13 -> "d" [] d = 14 -> "e" [] d = 15 -> "f"

RECURSIVE toString16(_)
toString16(n) ==
  IF n < 16 THEN HexDigit(n) ELSE toString16(n \div 16) \o HexDigit(n % 16)

RECURSIVE padStart(_, _, _)
padStart(str, targetLen, fill) ==
  IF Len(str) >= targetLen THEN str ELSE padStart(fill \o str, targetLen, fill)

toColorString(color) == "#" \o padStart(toString16(color), 6, "0")

hash(x, y) == ToString(x) \o "_" \o ToString(y)

Vector(x, y) == [x |-> x, y |-> y]

----------------------------------------------------------------------------
(* Array access                                                            *)

HasRow(m, r) == r \in DOMAIN m.rows

\* map[r][c]: UNDEFINED for a column outside the row (map[r] must exist).
CellAt(m, c, r) ==
  IF c >= 0 /\ c < Len(m.rows[r]) THEN m.rows[r][c + 1] ELSE UNDEFINED

\* row[c] = v. Writing at or beyond the length leaves the skipped slots
\* empty; a negative c is a property of the row object, not an element.
SetIdx(row, c, v) ==
  IF c < 0 THEN row
  ELSE IF c < Len(row) THEN [row EXCEPT ![c + 1] = v]
  ELSE row \o [i \in 1..(c - Len(row)) |-> UNDEFINED] \o <<v>>

\* map[r] = row.
SetRow(m, r, row) ==
  [length |-> IF r >= m.length THEN r + 1 ELSE m.length,
   rows |-> [i \in (DOMAIN m.rows) \cup {r} |-> IF i = r THEN row ELSE m.rows[i]]]

Max(a, b) == IF a > b THEN a ELSE b

----------------------------------------------------------------------------
(* Drawing surface.  Every rectangle the editor fills is one cell of the   *)
(* current cell size, aligned to the cell grid, so the bitmap is kept per  *)
(* cell: pix maps the cells that lie inside the canvas to their colour.    *)
(* draws is the list of drawing calls made by the running handler.         *)

Transparent == "transparent"

BlankPix(w, h, L) ==
  [c \in (0..((w \div L) - 1)) \X (0..((h \div L) - 1)) |-> Transparent]

DrawCall(op, x, y, w, h, style) ==
  [op |-> op, x |-> x, y |-> y, w |-> w, h |-> h, style |-> style]

\* context.fillStyle = style; context.fillRect(x, y, w, h)
fillRect(s, x, y, w, h, style) ==
  LET c == <<x \div s.cellLen, y \div s.cellLen>>
  IN [s EXCEPT !.draws = Append(@, DrawCall("fillRect", x, y, w, h, style)),
               !.canvas.pix = IF c \in DOMAIN @ THEN [@ EXCEPT ![c] = style] ELSE @]

\* context.strokeStyle = "black"; context.strokeRect(x, y, w, h)
strokeRect(s, x, y, w, h) ==
  [s EXCEPT !.draws = Append(@, DrawCall("strokeRect", x, y, w, h, "black"))]

\* canvas.width = w; canvas.height = h (assigning a dimension clears the bitmap)
resizeCanvas(s, w, h) ==
  [s EXCEPT !.draws = Append(@, DrawCall("resize", 0, 0, w, h, "")),
            !.canvas = [width |-> w, height |-> h, pix |-> BlankPix(w, h, s.cellLen)]]

\* context.clearRect(0, 0, canvas.width, canvas.height)
clearRect(s) ==
  [s EXCEPT !.draws = Append(@, DrawCall("clearRect", 0, 0, s.canvas.width, s.canvas.height, "")),
            !.canvas.pix = [c \in DOMAIN @ |-> Transparent]]

----------------------------------------------------------------------------
(* EditableCanvas.  A method is an operator from the object's state s to   *)
(* its state when the method returns; s.thrown is set when the method      *)
(* ends by throwing (the state then is the one at the throw).              *)

\* celldata is a Map: a list of entries in insertion order, one per key.

\* A deleteCelldata that forgets the entry it should remove.
deleteCelldataKept(s, x, y) == s

deleteCelldata(s, x, y) ==
  [s EXCEPT !.celldata = SelectSeq(@, LAMBDA e : e.key # hash(x, y))]

assignCelldata(s, x, y) ==
  LET k == hash(x, y)
      v == [cell |-> Vector(x, y)]
      has == \E i \in 1..Len(s.celldata) : s.celldata[i].key = k
  IN [s EXCEPT !.celldata =
        IF has THEN [i \in 1..Len(@) |-> IF @[i].key = k THEN [key |-> k, val |-> v] ELSE @[i]]
        ELSE Append(@, [key |-> k, val |-> v])]

CelldataAt(cd, x, y) == SelectSeq(cd, LAMBDA e : e.key = hash(x, y))

\* A formatMap whose padding loop runs once too often (<= for <).
formatMapPadOneMore(s) ==
  LET m == s.map
      idx == 0..(m.length - 1)
      lens == {Len(m.rows[i]) : i \in {j \in idx : HasRow(m, j)}}
      maxRowLen == IF lens = {} THEN 0 ELSE CHOOSE n \in lens : \A k \in lens : k <= n
      fmt(row) == [c \in 1..Max(Len(row), maxRowLen + 1) |->
                     IF c <= Len(row) /\ row[c] # UNDEFINED THEN row[c] ELSE 0]
      m1 == [length |-> m.length,
             rows |-> [i \in (DOMAIN m.rows) \cup idx |->
                         IF i \in idx
                         THEN fmt(IF HasRow(m, i) THEN m.rows[i] ELSE <<>>)
                         ELSE m.rows[i]]]
      sp == s.spawnPos
  IN IF HasRow(m1, sp.y)
     THEN [s EXCEPT !.map = SetRow(m1, sp.y, SetIdx(m1.rows[sp.y], sp.x, AIR))]
     ELSE [s EXCEPT !.map = m1, !.thrown = TRUE]

\* A formatMap that leaves the undefined slots of a row as they are.
formatMapKeepHoles(s) ==
  LET m == s.map
      idx == 0..(m.length - 1)
      lens == {Len(m.rows[i]) : i \in {j \in idx : HasRow(m, j)}}
      maxRowLen == IF lens = {} THEN 0 ELSE CHOOSE n \in lens : \A k \in lens : k <= n
      fmt(row) == [c \in 1..Max(Len(row), maxRowLen) |->
                     IF c <= Len(row) THEN row[c] ELSE 0]
      m1 == [length |-> m.length,
             rows |-> [i \in (DOMAIN m.rows) \cup idx |->
                         IF i \in idx
                         THEN fmt(IF HasRow(m, i) THEN m.rows[i] ELSE <<>>)
                         ELSE m.rows[i]]]
      sp == s.spawnPos
  IN IF HasRow(m1, sp.y)
     THEN [s EXCEPT !.map = SetRow(m1, sp.y, SetIdx(m1.rows[sp.y], sp.x, AIR))]
     ELSE [s EXCEPT !.map = m1, !.thrown = TRUE]

\* A formatMap that fills a row it has to pad with 0 from its first slot.
formatMapClearsShortRows(s) ==
  LET m == s.map
      idx == 0..(m.length - 1)
      lens == {Len(m.rows[i]) : i \in {j \in idx : HasRow(m, j)}}
      maxRowLen == IF lens = {} THEN 0 ELSE CHOOSE n \in lens : \A k \in lens : k <= n
      fmt(row) == [c \in 1..Max(Len(row), maxRowLen) |->
                     IF Len(row) = maxRowLen /\ row[c] # UNDEFINED THEN row[c] ELSE 0]
      m1 == [length |-> m.length,
             rows |-> [i \in (DOMAIN m.rows) \cup idx |->
                         IF i \in idx
                         THEN fmt(IF HasRow(m, i) THEN m.rows[i] ELSE <<>>)
                         ELSE m.rows[i]]]
      sp == s.spawnPos
  IN IF HasRow(m1, sp.y)
     THEN [s EXCEPT !.map = SetRow(m1, sp.y, SetIdx(m1.rows[sp.y], sp.x, AIR))]
     ELSE [s EXCEPT !.map = m1, !.thrown = TRUE]

formatMap(s) ==
  LET m == s.map
      idx == 0..(m.length - 1)
      lens == {Len(m.rows[i]) : i \in {j \in idx : HasRow(m, j)}}
      maxRowLen == IF lens = {} THEN 0 ELSE CHOOSE n \in lens : \A k \in lens : k <= n
      fmt(row) == [c \in 1..Max(Len(row), maxRowLen) |->
                     IF c <= Len(row) /\ row[c] # UNDEFINED THEN row[c] ELSE 0]
      m1 == [length |-> m.length,
             rows |-> [i \in (DOMAIN m.rows) \cup idx |->
                         IF i \in idx
                         THEN fmt(IF HasRow(m, i) THEN m.rows[i] ELSE <<>>)
                         ELSE m.rows[i]]]
      sp == s.spawnPos
  IN IF HasRow(m1, sp.y)
     THEN [s EXCEPT !.map = SetRow(m1, sp.y, SetIdx(m1.rows[sp.y], sp.x, AIR))]
     ELSE [s EXCEPT !.map = m1, !.thrown = TRUE]

paintCell(s, x, y, color) ==
  fillRect(s, x - JsRem(x, s.cellLen), y - JsRem(y, s.cellLen),
           s.cellLen, s.cellLen, toColorString(color))

paintSpawnPos(s) ==
  fillRect(s, s.spawnPos.x * s.cellLen, s.spawnPos.y * s.cellLen,
           s.cellLen, s.cellLen, toColorString(SPAWN_POS_COLOR))

\* A paintCursor whose square starts at the pointer's cell.
paintCursorFromCorner(s) ==
  LET L == s.cellLen
      px == s.input.clientX + scrollX
      py == s.input.clientY + scrollY
      x == px - JsRem(px, L)
      y == py - JsRem(py, L)
  IN strokeRect(s, x, y, L * (2 * s.cursorRadius + 1), L * (2 * s.cursorRadius + 1))

paintCursor(s) ==
  LET L == s.cellLen
      px == s.input.clientX + scrollX
      py == s.input.clientY + scrollY
      x == px - JsRem(px, L)
      y == py - JsRem(py, L)
  IN strokeRect(s, x - s.cursorRadius * L, y - s.cursorRadius * L,
                L * (2 * s.cursorRadius + 1), L * (2 * s.cursorRadius + 1))

\* The cells of the square of half-width radius around (cx, cy), row-major.
ScanSquare(cx, cy, radius) ==
  LET side == 2 * radius + 1
  IN [k \in 1..(side * side) |->
        <<cx - radius + ((k - 1) % side), cy - radius + ((k - 1) \div side)>>]

RECURSIVE fillCell(_, _, _, _)
RECURSIVE repaintCanvas(_)
RECURSIVE forEachCell(_, _, _)

\* A fillCell that starts the row afresh whenever it has to redraw the canvas.
fillCellResetRow(s, x, y, cell) ==
  LET L == s.cellLen
      x1 == x - JsRem(x, L)
      y1 == y - JsRem(y, L)
      col == x1 \div L
      r == y1 \div L
      noRow == ~HasRow(s.map, r)
      m1 == IF noRow \/ col >= Len(s.map.rows[r]) THEN SetRow(s.map, r, <<>>) ELSE s.map
      row == m1.rows[r]
      redrawCanvas == noRow \/ col >= Len(row)
      old == CellAt(m1, col, r)
      s1 == [s EXCEPT !.map = m1]
  IN IF ~IsCellType(old) THEN [s1 EXCEPT !.thrown = TRUE]
     ELSE LET s2 == IF CellDef(old).celldata THEN deleteCelldata(s1, col, r) ELSE s1
          IN IF ~IsCellType(cell) THEN [s2 EXCEPT !.thrown = TRUE]
             ELSE LET s3 == [s2 EXCEPT !.map = SetRow(m1, r, SetIdx(row, col, CellDef(cell).type))]
                      s4 == IF CellDef(cell).celldata THEN assignCelldata(s3, col, r) ELSE s3
                      s5 == fillRect(s4, x1, y1, L, L, toColorString(CellDef(cell).color))
                  IN IF redrawCanvas THEN repaintCanvas(s5) ELSE s5

\* cell is the index of the Cell object in CELL_DEFNS (outside the registry:
\* the object is undefined).
fillCell(s, x, y, cell) ==
  LET L == s.cellLen
      x1 == x - JsRem(x, L)
      y1 == y - JsRem(y, L)
      col == x1 \div L
      r == y1 \div L
      noRow == ~HasRow(s.map, r)
      m1 == IF noRow THEN SetRow(s.map, r, <<>>) ELSE s.map
      row == m1.rows[r]
      redrawCanvas == noRow \/ col >= Len(row)
      old == CellAt(m1, col, r)
      s1 == [s EXCEPT !.map = m1]
  IN IF ~IsCellType(old) THEN [s1 EXCEPT !.thrown = TRUE]
     ELSE LET s2 == IF CellDef(old).celldata THEN deleteCelldata(s1, col, r) ELSE s1
          IN IF ~IsCellType(cell) THEN [s2 EXCEPT !.thrown = TRUE]
             ELSE LET s3 == [s2 EXCEPT !.map = SetRow(m1, r, SetIdx(row, col, CellDef(cell).type))]
                      s4 == IF CellDef(cell).celldata THEN assignCelldata(s3, col, r) ELSE s3
                      s5 == fillRect(s4, x1, y1, L, L, toColorString(CellDef(cell).color))
                  IN IF redrawCanvas THEN repaintCanvas(s5) ELSE s5

\* The try { fillCell } catch {} scan of fillRegion over the pixels in scan.
\* (The state after each fillCell is bound as the element of a one-element
\* set, so that it is computed once, also inside ENABLED.)
RECURSIVE tryFillEach(_, _, _, _)
tryFillEach(s, scan, i, cell) ==
  IF i > Len(scan) THEN s
  ELSE CHOOSE r \in
         {tryFillEach(IF s1.thrown THEN [s1 EXCEPT !.thrown = FALSE] ELSE s1, scan, i + 1, cell) :
            s1 \in {fillCell(s0, p[1], p[2], cell) : s0 \in {s}, p \in {scan[i]}}} : TRUE

fillRegion(s, x, y, cell) ==
  LET L == s.cellLen
      x1 == x - JsRem(x, L)
      y1 == y - JsRem(y, L)
      cells == ScanSquare(0, 0, s.cursorRadius)
      scan == [k \in 1..Len(cells) |-> <<x1 + cells[k][1] * L, y1 + cells[k][2] * L>>]
  IN CHOOSE r \in {paintSpawnPos(s1) : s1 \in {tryFillEach(s0, sc, 1, cell) : s0 \in {s}, sc \in {scan}}} : TRUE

\* Whether the body of repaintRegion's try block completes for cell (pX, pY).
Paintable(m, pX, pY) == HasRow(m, pY) /\ IsCellType(CellAt(m, pX, pY))

RECURSIVE paintEach(_, _, _)
paintEach(s, cells, i) ==
  IF i > Len(cells) THEN s
  ELSE LET pX == cells[i][1]
           pY == cells[i][2]
       IN paintEach(fillRect(s, pX * s.cellLen, pY * s.cellLen, s.cellLen, s.cellLen,
                             toColorString(CellDef(CellAt(s.map, pX, pY)).color)),
                    cells, i + 1)

REPAINT_MARGIN == 10

Min(a, b) == IF a < b THEN a ELSE b

\* The cells of rows r..rTo and columns cFrom..cTo for which the try block
\* completes, row-major.
RECURSIVE PaintableCells(_, _, _, _, _)
PaintableCells(m, r, rTo, cFrom, cTo) ==
  IF r > rTo THEN <<>>
  ELSE (IF HasRow(m, r)
        THEN LET lo == Max(cFrom, 0)
                 hi == Min(cTo, Len(m.rows[r]) - 1)
             IN SelectSeq([k \in 1..(hi - lo + 1) |-> <<lo + k - 1, r>>],
                          LAMBDA c : Paintable(m, c[1], c[2]))
        ELSE <<>>)
       \o PaintableCells(m, r + 1, rTo, cFrom, cTo)

\* The scan visits the square of half-width cursorRadius + 10 row-major; a
\* cell whose row is absent or that holds no registry code throws inside the
\* try block before anything is drawn, and a row index below 0 or at or
\* beyond map.length holds no element, so the scan draws the paintable cells
\* of the rows 0..length-1 that lie in the square.
\* A repaintRegion without the margin of ten cells.
repaintRegionNoMargin(s, x, y) ==
  LET radius == s.cursorRadius
      cx == MathFloorDiv(x, s.cellLen)
      cy == MathFloorDiv(y, s.cellLen)
      cells == PaintableCells(s.map, Max(cy - radius, 0),
                              Min(cy + radius, s.map.length - 1),
                              cx - radius, cx + radius)
  IN paintSpawnPos(paintEach(s, cells, 1))

repaintRegion(s, x, y) ==
  LET radius == s.cursorRadius + REPAINT_MARGIN
      cx == MathFloorDiv(x, s.cellLen)
      cy == MathFloorDiv(y, s.cellLen)
      cells == PaintableCells(s.map, Max(cy - radius, 0),
                              Min(cy + radius, s.map.length - 1),
                              cx - radius, cx + radius)
  IN paintSpawnPos(paintEach(s, cells, 1))

\* The (col, row) pairs visited by map.forEach(row => row.forEach(...)).
RECURSIVE RowMajor(_, _)
RowMajor(m, r) ==
  IF r >= m.length THEN <<>>
  ELSE (IF HasRow(m, r) THEN [c \in 1..Len(m.rows[r]) |-> <<c - 1, r>>] ELSE <<>>)
       \o RowMajor(m, r + 1)

forEachCell(s, cells, i) ==
  IF i > Len(cells) \/ s.thrown THEN s
  ELSE LET col == cells[i][1]
           r == cells[i][2]
       IN forEachCell(fillCell(s, col * s.cellLen, r * s.cellLen, CellAt(s.map, col, r)),
                      cells, i + 1)

\* A repaintCanvas that does not call formatMap first.
repaintCanvasUnformatted(s) ==
  IF ~HasRow(s.map, 0) THEN [s EXCEPT !.thrown = TRUE]
  ELSE LET s2 == clearRect(resizeCanvas(s, Len(s.map.rows[0]) * s.cellLen,
                                        s.map.length * s.cellLen))
           s3 == forEachCell(s2, RowMajor(s2.map, 0), 1)
       IN IF s3.thrown THEN s3 ELSE paintCursor(paintSpawnPos(s3))

\* A repaintCanvas that paints the spawn overlay before the cells.
repaintCanvasSpawnFirst(s) ==
  LET s1 == formatMap(s)
  IN IF s1.thrown THEN s1
     ELSE IF ~HasRow(s1.map, 0) THEN [s1 EXCEPT !.thrown = TRUE]
     ELSE LET s2 == paintSpawnPos(clearRect(resizeCanvas(s1, Len(s1.map.rows[0]) * s1.cellLen,
                                                         s1.map.length * s1.cellLen)))
              s3 == forEachCell(s2, RowMajor(s2.map, 0), 1)
          IN IF s3.thrown THEN s3 ELSE paintCursor(s3)

repaintCanvas(s) ==
  LET s1 == formatMap(s)
  IN IF s1.thrown THEN s1
     ELSE IF ~HasRow(s1.map, 0) THEN [s1 EXCEPT !.thrown = TRUE]
     ELSE LET s2 == clearRect(resizeCanvas(s1, Len(s1.map.rows[0]) * s1.cellLen,
                                           s1.map.length * s1.cellLen))
              s3 == forEachCell(s2, RowMajor(s2.map, 0), 1)
          IN IF s3.thrown THEN s3 ELSE paintCursor(paintSpawnPos(s3))

\* args is <<newX, newY>>, or <<>> when the call passes no argument.
updateCursorPos(s, args) ==
  LET s1 == repaintRegion(s, s.input.clientX + scrollX, s.input.clientY + scrollY)
      s2 == IF Len(args) = 2 /\ args[1] # 0 /\ args[2] # 0
            THEN [s1 EXCEPT !.input.clientX = args[1], !.input.clientY = args[2]]
            ELSE s1
  IN paintCursor(s2)

\* A setSpawnPos whose guard compares with > where the code has >=.
setSpawnPosInclusive(s, newSpawnPos) ==
  IF newSpawnPos.x < 0 \/ newSpawnPos.y < 0 THEN s
  ELSE IF ~HasRow(s.map, 0) THEN [s EXCEPT !.thrown = TRUE]
  ELSE IF newSpawnPos.x > Len(s.map.rows[0]) \/ newSpawnPos.y > s.map.length THEN s
  ELSE LET s1 == paintCell(s, s.spawnPos.x, s.spawnPos.y, CellDef(AIR).color)
           s2 == [s1 EXCEPT !.spawnPos = newSpawnPos]
       IN IF ~HasRow(s2.map, newSpawnPos.y) THEN [s2 EXCEPT !.thrown = TRUE]
          ELSE paintSpawnPos(
                 [s2 EXCEPT !.map = SetRow(@, newSpawnPos.y,
                                           SetIdx(@.rows[newSpawnPos.y], newSpawnPos.x, AIR))])

setSpawnPos(s, newSpawnPos) ==
  IF newSpawnPos.x < 0 \/ newSpawnPos.y < 0 THEN s
  ELSE IF ~HasRow(s.map, 0) THEN [s EXCEPT !.thrown = TRUE]
  ELSE IF newSpawnPos.x >= Len(s.map.rows[0]) \/ newSpawnPos.y >= s.map.length THEN s
  ELSE LET s1 == paintCell(s, s.spawnPos.x, s.spawnPos.y, CellDef(AIR).color)
           s2 == [s1 EXCEPT !.spawnPos = newSpawnPos]
       IN IF ~HasRow(s2.map, newSpawnPos.y) THEN [s2 EXCEPT !.thrown = TRUE]
          ELSE paintSpawnPos(
                 [s2 EXCEPT !.map = SetRow(@, newSpawnPos.y,
                                           SetIdx(@.rows[newSpawnPos.y], newSpawnPos.x, AIR))])

setCellLen(s, len) == repaintCanvas([s EXCEPT !.cellLen = len])

MAX_CURSOR_RADIUS == 20

\* A setCursorRadius that checks only the sign of its argument.
setCursorRadiusUncapped(s, radius) ==
  IF radius < 0 THEN s
  ELSE updateCursorPos([s EXCEPT !.cursorRadius = radius], <<>>)

setCursorRadius(s, radius) ==
  IF radius < 0 \/ radius > MAX_CURSOR_RADIUS THEN s
  ELSE updateCursorPos([s EXCEPT !.cursorRadius = radius], <<>>)

\* JSON.stringify of the grid: the elements 0..length-1, an empty slot as null.
stringifyMap(m) ==
  [i \in 1..m.length |->
     [c \in 1..Len(m.rows[i - 1]) |->
        IF m.rows[i - 1][c] = UNDEFINED THEN NULL ELSE m.rows[i - 1][c]]]

\* The array a parsed JSON grid yields.
parseMap(data) ==
  [length |-> Len(data), rows |-> [i \in 0..(Len(data) - 1) |-> data[i + 1]]]

\* A comparator that orders by column first, then by row.
CelldataBeforeByColumn(a, b) ==
  IF a.cell.x # b.cell.x THEN a.cell.x < b.cell.x ELSE a.cell.y < b.cell.y

\* a before b in the order of save's comparator.
CelldataBefore(a, b) ==
  IF a.cell.y # b.cell.y THEN a.cell.y < b.cell.y ELSE a.cell.x < b.cell.x

\* Array.prototype.sort with that comparator (stable).
RECURSIVE sortCelldata(_)
sortCelldata(list) ==
  IF Len(list) <= 1 THEN list
  ELSE LET rest == sortCelldata(Tail(list))
           h == Head(list)
           n == Cardinality({i \in 1..Len(rest) : CelldataBefore(rest[i], h)})
       IN SubSeq(rest, 1, n) \o <<h>> \o SubSeq(rest, n + 1, Len(rest))

download(s, contents, fileName) ==
  [s EXCEPT !.downloads = Append(@, [fileName |-> fileName, contents |-> contents])]

\* A payload whose spawnPosition has its coordinates exchanged.
MapPayloadSwapped(s) ==
  [data |-> stringifyMap(s.map), spawnPosition |-> Vector(s.spawnPos.y, s.spawnPos.x)]

MapPayload(s) == [data |-> stringifyMap(s.map), spawnPosition |-> s.spawnPos]

CelldataPayload(s) ==
  [data |-> sortCelldata([i \in 1..Len(s.celldata) |-> s.celldata[i].val])]

\* A save that builds the payloads from the grid as it is.
saveUnformatted(s) ==
  download(download(s, MapPayload(s), "map.json"), CelldataPayload(s), "mapCelldata.json")

save(s) ==
  LET s1 == formatMap(s)
  IN IF s1.thrown THEN s1
     ELSE download(download(s1, MapPayload(s1), "map.json"),
                   CelldataPayload(s1), "mapCelldata.json")

\* celldata.set(hash(obj.cell.x, obj.cell.y), obj) for each record of the file.
RECURSIVE loadCelldata(_, _, _)
loadCelldata(cd, src, i) ==
  IF i > Len(src) THEN cd
  ELSE LET k == hash(src[i].cell.x, src[i].cell.y)
           has == \E j \in 1..Len(cd) : cd[j].key = k
       IN loadCelldata(
            IF has THEN [j \in 1..Len(cd) |-> IF cd[j].key = k THEN [key |-> k, val |-> src[i]] ELSE cd[j]]
            ELSE Append(cd, [key |-> k, val |-> src[i]]),
            src, i + 1)

innerWidth == 40
innerHeight == 30

\* new EditableCanvas() with def/map.json = rawJSON and
\* def/mapCelldata.json = rawCelldata.
constructor(rawJSON, rawCelldata) ==
  repaintCanvas(
    [map |-> parseMap(rawJSON.data),
     spawnPos |-> rawJSON.spawnPosition,
     cellLen |-> initialCellLen,
     cursorRadius |-> 1,
     input |-> [selectedCell |-> GRASS, leftPressed |-> FALSE, rightPressed |-> FALSE,
                clientX |-> 0, clientY |-> 0],
     celldata |-> loadCelldata(<<>>, rawCelldata.data, 1),
     canvas |-> [width |-> innerWidth, height |-> innerHeight,
                 pix |-> BlankPix(innerWidth, innerHeight, initialCellLen)],
     draws |-> <<>>,
     downloads |-> <<>>,
     thrown |-> FALSE])

----------------------------------------------------------------------------
(* Input layer                                                             *)

KEY_INPUTS ==
  [k \in {"1", "2", "3", "4", "q", "w", "e", "r", "t", "a", "s", "d",
          "z", "x", "c", "v", "b"} |->
     CASE k = "1" -> RESOURCE [] k = "2" -> RES_HEAL [] k = "3" -> RES_HEX
       [] k = "4" -> RES_OCT [] k = "q" -> DIRT [] k = "w" -> STONE
       [] k = "e" -> GRASS [] k = "r" -> ICE [] k = "t" -> FIRE
       [] k = "a" -> ENEMY_PENT [] k = "s" -> ENEMY_SEPT [] k = "d" -> ENEMY_FLY
       [] k = "z" -> SPAWN_POS [] k = "x" -> PLATFORM [] k = "c" -> CRUSHER
       [] k = "v" -> YEETER [] k = "b" -> LAVA]

\* key.toUpperCase() for the keys of KEY_INPUTS.
toUpperCase(k) ==
  CASE k = "q" -> "Q" [] k = "w" -> "W" [] k = "e" -> "E" [] k = "r" -> "R"
    [] k = "t" -> "T" [] k = "a" -> "A" [] k = "s" -> "S" [] k = "d" -> "D"
    [] k = "z" -> "Z" [] k = "x" -> "X" [] k = "c" -> "C" [] k = "v" -> "V"
    [] k = "b" -> "B" [] OTHER -> k

\* A processInput that looks at the right button before the left one.
processInputRightFirst(s) ==
  LET is == s.input
      s1 == IF ~is.rightPressed /\ is.leftPressed /\ is.selectedCell = SPAWN_POS
            THEN setSpawnPos(s, Vector(MathFloorDiv(is.clientX + scrollX, s.cellLen),
                                       MathFloorDiv(is.clientY + scrollY, s.cellLen)))
            ELSE s
      cell == IF is.rightPressed THEN AIR
              ELSE IF is.leftPressed
              THEN (IF is.selectedCell = SPAWN_POS THEN UNDEFINED ELSE is.selectedCell)
              ELSE UNDEFINED
  IN IF s1.thrown THEN s1
     ELSE IF IsCellType(cell)
     THEN fillRegion(s1, is.clientX + scrollX, is.clientY + scrollY, cell)
     ELSE s1

\* A processInput without the branch for the spawn selection.
processInputNoSentinel(s) ==
  LET is == s.input
      cell == IF is.leftPressed THEN is.selectedCell
              ELSE IF is.rightPressed THEN AIR ELSE UNDEFINED
  IN IF IsCellType(cell)
     THEN fillRegion(s, is.clientX + scrollX, is.clientY + scrollY, cell)
     ELSE s

processInput(s) ==
  LET is == s.input
      s1 == IF is.leftPressed /\ is.selectedCell = SPAWN_POS
            THEN setSpawnPos(s, Vector(MathFloorDiv(is.clientX + scrollX, s.cellLen),
                                       MathFloorDiv(is.clientY + scrollY, s.cellLen)))
            ELSE s
      cell == IF is.leftPressed
              THEN (IF is.selectedCell = SPAWN_POS THEN UNDEFINED ELSE is.selectedCell)
              ELSE IF is.rightPressed THEN AIR ELSE UNDEFINED
  IN IF s1.thrown THEN s1
     ELSE IF IsCellType(cell)
     THEN fillRegion(s1, is.clientX + scrollX, is.clientY + scrollY, cell)
     ELSE s1

\* A processMouseEvent that also runs the tick's work at once.
processMouseEventPlaces(s, button, clientX, clientY, newValue) ==
  LET s1 == CASE button = 0 -> [s EXCEPT !.input.leftPressed = newValue]
              [] button = 2 -> [s EXCEPT !.input.rightPressed = newValue]
              [] OTHER -> s
  IN processInput(updateCursorPos(s1, <<clientX, clientY>>))

\* processMouseEvent(ev, newValue) of the mousedown and mouseup listeners.
processMouseEvent(s, button, clientX, clientY, newValue) ==
  LET s1 == CASE button = 0 -> [s EXCEPT !.input.leftPressed = newValue]
              [] button = 2 -> [s EXCEPT !.input.rightPressed = newValue]
              [] OTHER -> s
  IN updateCursorPos(s1, <<clientX, clientY>>)

onMouseMove(s, clientX, clientY) == updateCursorPos(s, <<clientX, clientY>>)

MIN_CELL_LEN == 4
MAX_CELL_LEN == 80

\* A wheel listener without the two clamping tests.
onWheelUnclamped(s, deltaY) ==
  LET len == IF deltaY > 0 THEN s.cellLen - 1 ELSE s.cellLen + 1
      s1 == setCellLen(s, len)
  IN IF s1.thrown THEN s1 ELSE updateCursorPos(s1, <<>>)

onWheel(s, deltaY) ==
  LET len == IF deltaY > 0
             THEN (IF s.cellLen - 1 < MIN_CELL_LEN THEN MIN_CELL_LEN ELSE s.cellLen - 1)
             ELSE (IF s.cellLen + 1 > MAX_CELL_LEN THEN MAX_CELL_LEN ELSE s.cellLen + 1)
      s1 == setCellLen(s, len)
  IN IF s1.thrown THEN s1 ELSE updateCursorPos(s1, <<>>)

\* A keydown listener that looks the key up in KEY_INPUTS directly.
onKeyDownDirectLookup(s, key) ==
  IF key = " " THEN
    LET s1 == save(s) IN IF s1.thrown THEN s1 ELSE updateCursorPos(s1, <<>>)
  ELSE IF key = "+" \/ key = "=" THEN
    updateCursorPos(setCursorRadius(s, s.cursorRadius + 1), <<>>)
  ELSE IF key = "-" \/ key = "_" THEN
    updateCursorPos(setCursorRadius(s, s.cursorRadius - 1), <<>>)
  ELSE [s EXCEPT !.input.selectedCell =
          IF key \in DOMAIN KEY_INPUTS THEN KEY_INPUTS[key] ELSE UNDEFINED]

onKeyDown(s, key) ==
  IF key = " " THEN
    LET s1 == save(s) IN IF s1.thrown THEN s1 ELSE updateCursorPos(s1, <<>>)
  ELSE IF key = "+" \/ key = "=" THEN
    updateCursorPos(setCursorRadius(s, s.cursorRadius + 1), <<>>)
  ELSE IF key = "-" \/ key = "_" THEN
    updateCursorPos(setCursorRadius(s, s.cursorRadius - 1), <<>>)
  ELSE IF \E k \in DOMAIN KEY_INPUTS : key = k \/ key = toUpperCase(k) THEN
    [s EXCEPT !.input.selectedCell =
       KEY_INPUTS[CHOOSE k \in DOMAIN KEY_INPUTS : key = k \/ key = toUpperCase(k)]]
  ELSE updateCursorPos(s, <<>>)

----------------------------------------------------------------------------
(* The editor as a state machine: one action per event handler.            *)

\* Bounds of the model.
MaxRadius == 1
ZoomSpan == 1
MaxEvents == 3

\* Pointer positions (clientX, clientY): on the cells of the initial grid, on
\* its edges, beside it and below it.
Points == {<<5, 5>>, <<15, 17>>, <<0, 15>>, <<25, 5>>, <<5, 25>>, <<15, 35>>}
Buttons == {0, 1, 2}
WheelDeltas == {-100, 100}
Keys == {" ", "+", "-", "e", "1", "Z", "p"}

\* The map files the editor is started on: rectangular, spawn inside.
InitGrids ==
  { <<<<AIR, AIR>>, <<AIR, AIR>>>>,
    <<<<GRASS, DIRT>>, <<RESOURCE, RES_HEAL>>>> }

InitSpawns == {Vector(0, 0), Vector(1, 0)}

InitMapFiles == {[data |-> g, spawnPosition |-> p] : g \in InitGrids, p \in InitSpawns}

\* The companion file: a record with an extra field on cell (0, 1).
InitCelldataFile == [data |-> <<[cell |-> Vector(0, 1), text |-> "sign"]>>]

\* The object's state when a handler starts.
This ==
  [map |-> map, spawnPos |-> spawnPos, cellLen |-> cellLen,
   cursorRadius |-> cursorRadius, input |-> input, celldata |-> celldata,
   canvas |-> canvas, draws |-> <<>>, downloads |-> <<>>, thrown |-> FALSE]

\* The handler or method named by call has run from the current state and
\* has ended in state s; pre keeps the state it started from.
Becomes(s, call) ==
  /\ map' = s.map
  /\ spawnPos' = s.spawnPos
  /\ cellLen' = s.cellLen
  /\ cursorRadius' = s.cursorRadius
  /\ input' = s.input
  /\ celldata' = s.celldata
  /\ canvas' = s.canvas
  /\ draws' = s.draws
  /\ downloads' = s.downloads
  /\ thrown' = s.thrown
  /\ last' = call
  /\ pre' = This

Called(op, key, args) == [op |-> op, key |-> key, args |-> args]

\* The page has loaded file f: the state after new EditableCanvas() and
\* registerInputHandlers.
Loaded(f, cd) ==
  LET s == constructor(f, cd)
  IN /\ map = s.map
     /\ spawnPos = s.spawnPos
     /\ cellLen = s.cellLen
     /\ cursorRadius = s.cursorRadius
     /\ input = s.input
     /\ celldata = s.celldata
     /\ canvas = s.canvas
     /\ draws = s.draws
     /\ downloads = s.downloads
     /\ thrown = s.thrown
     /\ rafScheduled = TRUE
     /\ last = Called("constructor", "", <<>>)
     /\ pre = [s EXCEPT !.draws = <<>>]
     /\ events = 0

Init ==
  /\ validateCellDefs
  /\ \E f \in InitMapFiles : Loaded(f, InitCelldataFile)

\* One more event is handled (the model follows MaxEvents events).
Handled == events < MaxEvents /\ events' = events + 1

MouseDown ==
  \E b \in Buttons, p \in Points :
    /\ Handled
    /\ Becomes(processMouseEvent(This, b, p[1], p[2], TRUE),
               Called("mousedown", "", <<b, p[1], p[2]>>))
    /\ UNCHANGED rafScheduled

MouseUp ==
  \E b \in Buttons, p \in Points :
    /\ Handled
    /\ Becomes(processMouseEvent(This, b, p[1], p[2], FALSE),
               Called("mouseup", "", <<b, p[1], p[2]>>))
    /\ UNCHANGED rafScheduled

MouseMove ==
  \E p \in Points :
    /\ Handled
    /\ Becomes(onMouseMove(This, p[1], p[2]), Called("mousemove", "", <<p[1], p[2]>>))
    /\ UNCHANGED rafScheduled

Wheel ==
  \E d \in WheelDeltas :
    /\ Handled
    /\ d > 0 => cellLen > initialCellLen - ZoomSpan
    /\ d <= 0 => cellLen < initialCellLen + ZoomSpan
    /\ Becomes(onWheel(This, d), Called("wheel", "", <<d>>))
    /\ UNCHANGED rafScheduled

KeyDown ==
  \E k \in Keys :
    /\ Handled
    /\ k = "+" => cursorRadius < MaxRadius
    /\ Becomes(onKeyDown(This, k), Called("keydown", k, <<>>))
    /\ UNCHANGED rafScheduled

\* A frame of the input-listener loop in which a tick is due: update runs
\* processInput and, when that returns, requests the next frame.
Tick ==
  /\ Handled
  /\ rafScheduled
  /\ LET s == processInput(This)
     IN /\ Becomes(s, Called("tick", "", <<>>))
        /\ rafScheduled' = ~s.thrown

Next == MouseDown \/ MouseUp \/ MouseMove \/ Wheel \/ KeyDown \/ Tick

Spec == Init /\ [][Next]_vars

----------------------------------------------------------------------------
(* The methods of EditableCanvas called one at a time, with arguments      *)
(* drawn from small sets.                                                  *)

MaxCalls == 3

\* Pixel arguments: inside cells, on a cell corner, right of a two-column
\* grid, below the grid, left of and above the origin.
ApiPoints == {<<5, 5>>, <<15, 17>>, <<10, 20>>, <<25, 5>>, <<-5, 5>>, <<5, -10>>}
ApiCells == {AIR, GRASS, RESOURCE, RES_HEAL}
RegionCells == {AIR, GRASS}
SpawnArgs == {Vector(0, 0), Vector(1, 0), Vector(1, 1), Vector(2, 2), Vector(2, 0),
              Vector(0, 3), Vector(-1, 0), Vector(0, -1)}
RadiusArgs == {-1, 0, 2, 21, 25}
CellLenArgs == {10, 20}

ApiGrids ==
  { <<<<AIR, GRASS>>, <<RESOURCE, RES_HEAL>>>>,
    <<<<GRASS, AIR, DIRT>>, <<DIRT, RESOURCE, AIR>>>> }

ApiMapFiles == {[data |-> g, spawnPosition |-> Vector(1, 0)] : g \in ApiGrids}

ApiInit ==
  /\ validateCellDefs
  /\ \E f \in ApiMapFiles : Loaded(f, InitCelldataFile)

CalledOnce == events < MaxCalls /\ events' = events + 1 /\ UNCHANGED rafScheduled

CallFillCell ==
  \E p \in ApiPoints, cell \in ApiCells :
    /\ CalledOnce
    /\ Becomes(fillCell(This, p[1], p[2], cell), Called("fillCell", "", <<p[1], p[2], cell>>))

CallFillRegion ==
  \E p \in ApiPoints, cell \in RegionCells :
    /\ CalledOnce
    /\ Becomes(fillRegion(This, p[1], p[2], cell), Called("fillRegion", "", <<p[1], p[2], cell>>))

CallSetSpawnPos ==
  \E v \in SpawnArgs :
    /\ CalledOnce
    /\ Becomes(setSpawnPos(This, v), Called("setSpawnPos", "", <<v.x, v.y>>))

CallSetCursorRadius ==
  \E n \in RadiusArgs :
    /\ CalledOnce
    /\ Becomes(setCursorRadius(This, n), Called("setCursorRadius", "", <<n>>))

CallSetCellLen ==
  \E n \in CellLenArgs :
    /\ CalledOnce
    /\ Becomes(setCellLen(This, n), Called("setCellLen", "", <<n>>))

CallFormatMap ==
  /\ CalledOnce
  /\ Becomes(formatMap(This), Called("formatMap", "", <<>>))

CallSave ==
  /\ CalledOnce
  /\ Becomes(save(This), Called("save", "", <<>>))

ApiNext ==
  \/ CallFillCell \/ CallFillRegion \/ CallSetSpawnPos \/ CallSetCursorRadius
  \/ CallSetCellLen \/ CallFormatMap \/ CallSave

ApiSpec == ApiInit /\ [][ApiNext]_vars

----------------------------------------------------------------------------
(* formatMap on arbitrary grids: up to MaxRows rows, each absent or of up   *)
(* to MaxCols slots that are empty or hold a code; spawn inside the extent. *)

MaxRows == 2
MaxCols == 2
MaxFormatCalls == 2

FormatSlots == {UNDEFINED, AIR, GRASS}

FormatRows == UNION {[1..n -> FormatSlots] : n \in 0..MaxCols}

\* The grids of length n: each index below n is missing or holds a row.
FormatGrids(n) ==
  {[length |-> n, rows |-> f] : f \in UNION {[d -> FormatRows] : d \in SUBSET (0..(n - 1))}}

GridWidth(m) ==
  LET lens == {Len(m.rows[i]) : i \in {j \in 0..(m.length - 1) : HasRow(m, j)}}
  IN IF lens = {} THEN 0 ELSE CHOOSE n \in lens : \A k \in lens : k <= n

\* The grid of the scenario [[1,1],[2,0]].
FormatExamples == {[length |-> 2, rows |-> (0 :> <<GRASS, GRASS>> @@ 1 :> <<DIRT, AIR>>)]}

FormatInit ==
  \E n \in 1..MaxRows : \E g \in FormatGrids(n) \cup FormatExamples :
    \E sx \in 0..(GridWidth(g) - 1), sy \in 0..(g.length - 1) :
      /\ map = g
      /\ spawnPos = Vector(sx, sy)
      /\ cellLen = initialCellLen
      /\ cursorRadius = 1
      /\ input = [selectedCell |-> GRASS, leftPressed |-> FALSE, rightPressed |-> FALSE,
                  clientX |-> 0, clientY |-> 0]
      /\ celldata = <<>>
      /\ canvas = [width |-> innerWidth, height |-> innerHeight,
                   pix |-> BlankPix(innerWidth, innerHeight, initialCellLen)]
      /\ draws = <<>>
      /\ downloads = <<>>
      /\ thrown = FALSE
      /\ rafScheduled = FALSE
      /\ last = Called("none", "", <<>>)
      /\ pre = This
      /\ events = 0

\* formatMap is called, MaxFormatCalls times in a row at most.
FormatMapCall ==
  /\ events < MaxFormatCalls
  /\ events' = events + 1
  /\ UNCHANGED rafScheduled
  /\ Becomes(formatMap(This), Called("formatMap", "", <<>>))

FormatSpec == FormatInit /\ [][FormatMapCall]_vars

----------------------------------------------------------------------------
(* The cursor radius: the '+', '=', '-' and '_' keys and direct calls of   *)
(* setCursorRadius, without a bound on the number of events.               *)

RadiusKeys == {"+", "=", "-", "_"}
RadiusCallArgs == {-2, -1, 0, 20, 21, 25}

RadiusKeyDown ==
  \E k \in RadiusKeys :
    /\ Becomes(onKeyDown(This, k), Called("keydown", k, <<>>))
    /\ UNCHANGED <<rafScheduled, events>>

RadiusCall ==
  \E n \in RadiusCallArgs :
    /\ Becomes(setCursorRadius(This, n), Called("setCursorRadius", "", <<n>>))
    /\ UNCHANGED <<rafScheduled, events>>

RadiusNext == RadiusKeyDown \/ RadiusCall

RadiusInit ==
  /\ validateCellDefs
  /\ Loaded([data |-> <<<<AIR, GRASS>>, <<GRASS, AIR>>>>, spawnPosition |-> Vector(0, 0)],
            InitCelldataFile)

RadiusSpec == RadiusInit /\ [][RadiusNext]_vars

----------------------------------------------------------------------------
(* The page's script from its first line: the bootstrap function validates *)
(* the registry the build was made with, then sets window.onload, which    *)
(* constructs the editor and registers the handlers.                       *)

\* Registries a build can have: the one of the source, and one with the
\* entries of GRASS and DIRT in exchanged places.
Registries ==
  << CELL_DEFNS,
     [i \in 1..Len(CELL_DEFNS) |->
        IF i = 2 THEN CELL_DEFNS[3] ELSE IF i = 3 THEN CELL_DEFNS[2] ELSE CELL_DEFNS[i]] >>

\* No EditableCanvas exists: the fields stand for an object not constructed,
\* the canvas element is blank.
BootInit ==
  /\ map = [length |-> 0, rows |-> <<>>]
  /\ spawnPos = Vector(0, 0)
  /\ cellLen = initialCellLen
  /\ cursorRadius = 1
  /\ input = [selectedCell |-> GRASS, leftPressed |-> FALSE, rightPressed |-> FALSE,
              clientX |-> 0, clientY |-> 0]
  /\ celldata = <<>>
  /\ canvas = [width |-> innerWidth, height |-> innerHeight,
               pix |-> BlankPix(innerWidth, innerHeight, initialCellLen)]
  /\ draws = <<>>
  /\ downloads = <<>>
  /\ thrown = FALSE
  /\ rafScheduled = FALSE
  /\ last = Called("script", "", <<>>)
  /\ pre = This
  /\ events = 0

\* The bootstrap function runs on a build with registry Registries[k]:
\* validateCellDefs() throws, or window.onload is set.
Bootstrap ==
  \E k \in 1..Len(Registries) :
    /\ last.op = "script"
    /\ last' = Called("validateCellDefs", "", <<k>>)
    /\ thrown' = ~Consistent(Registries[k])
    /\ pre' = This
    /\ UNCHANGED <<map, spawnPos, cellLen, cursorRadius, input, celldata, canvas, draws,
                   downloads, rafScheduled, events>>

\* window.onload fires (it was set only if validateCellDefs returned, and then
\* the registry is the one of the source).
Onload ==
  /\ last.op = "validateCellDefs"
  /\ ~thrown
  /\ \E f \in InitMapFiles :
       /\ Becomes(constructor(f, InitCelldataFile), Called("constructor", "", <<>>))
       /\ rafScheduled' = TRUE
       /\ UNCHANGED events

\* registerInputHandlers has run.
Registered == last.op \notin {"script", "validateCellDefs"}

BootNext == Bootstrap \/ Onload \/ (Registered /\ Next)

BootSpec == BootInit /\ [][BootNext]_vars

----------------------------------------------------------------------------
(* The paint methods of EditableCanvas called between fill calls.          *)

PaintColors == {CellDef(GRASS).color, CellDef(LAVA).color}

CallPaintCell ==
  \E p \in ApiPoints, color \in PaintColors :
    /\ CalledOnce
    /\ Becomes(paintCell(This, p[1], p[2], color), Called("paintCell", "", <<p[1], p[2], color>>))

CallPaintSpawnPos ==
  /\ CalledOnce
  /\ Becomes(paintSpawnPos(This), Called("paintSpawnPos", "", <<>>))

CallPaintCursor ==
  /\ CalledOnce
  /\ Becomes(paintCursor(This), Called("paintCursor", "", <<>>))

\* Pixel arguments of repaintRegion: those of the fills, and one so far to
\* the right that only the last column of a three-column grid is in reach.
RepaintPoints == ApiPoints \cup {<<130, 5>>}

CallRepaintRegion ==
  \E p \in RepaintPoints :
    /\ CalledOnce
    /\ Becomes(repaintRegion(This, p[1], p[2]), Called("repaintRegion", "", <<p[1], p[2]>>))

CallRepaintCanvas ==
  /\ CalledOnce
  /\ Becomes(repaintCanvas(This), Called("repaintCanvas", "", <<>>))

PaintNext ==
  \/ CallFillCell \/ CallFillRegion
  \/ CallPaintCell \/ CallPaintSpawnPos \/ CallPaintCursor
  \/ CallRepaintRegion \/ CallRepaintCanvas

PaintSpec == ApiInit /\ [][PaintNext]_vars

----------------------------------------------------------------------------
(* Zoom: wheel events and pointer moves, without a bound on the number of  *)
(* events.                                                                 *)

ZoomPoints == {<<5, 5>>, <<15, 17>>}

ZoomWheel ==
  \E d \in WheelDeltas :
    /\ Becomes(onWheel(This, d), Called("wheel", "", <<d>>))
    /\ UNCHANGED <<rafScheduled, events>>

ZoomMouseMove ==
  \E p \in ZoomPoints :
    /\ Becomes(onMouseMove(This, p[1], p[2]), Called("mousemove", "", <<p[1], p[2]>>))
    /\ UNCHANGED <<rafScheduled, events>>

ZoomNext == ZoomWheel \/ ZoomMouseMove

ZoomSpec == RadiusInit /\ [][ZoomNext]_vars

----------------------------------------------------------------------------
(* The fill and paint methods together with setSpawnPos.                   *)

OverlayNext == PaintNext \/ CallSetSpawnPos

OverlaySpec == ApiInit /\ [][OverlayNext]_vars

----------------------------------------------------------------------------
(* The editor under pointer work at and below the lower edge of the grid,  *)
(* followed through any number of events.                                  *)

\* Pointer positions: one row below the grid and three rows below it.
EdgePoints == {<<5, 25>>, <<5, 45>>}
EdgeButtons == {0, 2}
EdgeKeys == {"z", "e"}

EdgeMouseDown ==
  \E b \in EdgeButtons, p \in EdgePoints :
    /\ Becomes(processMouseEvent(This, b, p[1], p[2], TRUE),
               Called("mousedown", "", <<b, p[1], p[2]>>))
    /\ UNCHANGED <<rafScheduled, events>>

EdgeMouseUp ==
  \E b \in EdgeButtons, p \in EdgePoints :
    /\ Becomes(processMouseEvent(This, b, p[1], p[2], FALSE),
               Called("mouseup", "", <<b, p[1], p[2]>>))
    /\ UNCHANGED <<rafScheduled, events>>

EdgeMouseMove ==
  \E p \in EdgePoints :
    /\ Becomes(onMouseMove(This, p[1], p[2]), Called("mousemove", "", <<p[1], p[2]>>))
    /\ UNCHANGED <<rafScheduled, events>>

EdgeKeyDown ==
  \E k \in EdgeKeys :
    /\ Becomes(onKeyDown(This, k), Called("keydown", k, <<>>))
    /\ UNCHANGED <<rafScheduled, events>>

\* A frame in which a tick is due; update requests the next frame only when
\* processInput has returned.
EdgeTick ==
  /\ rafScheduled
  /\ LET s == processInput(This)
     IN /\ Becomes(s, Called("tick", "", <<>>))
        /\ rafScheduled' = ~s.thrown
  /\ UNCHANGED events

EdgeNext == EdgeMouseDown \/ EdgeMouseUp \/ EdgeMouseMove \/ EdgeKeyDown \/ EdgeTick

EdgeSpec == RadiusInit /\ [][EdgeNext]_vars

----------------------------------------------------------------------------
(* The input loop under fairness.  update runs once per animation frame;   *)
(* a frame in which less than tickPeriod has passed since the last tick    *)
(* changes nothing (a stuttering step) and requests the next frame.  While *)
(* frames keep firing and time advances, a frame in which the tick is due  *)
(* comes: weak fairness of the tick, for as long as the loop is scheduled. *)

\* Pointer positions: on the grid, one row below it and three rows below it.
LivePoints == {<<5, 5>>, <<5, 25>>, <<5, 45>>}
LiveKeys == {"z", "e"}

LiveMouseDown ==
  \E p \in LivePoints :
    /\ Becomes(processMouseEvent(This, 0, p[1], p[2], TRUE),
               Called("mousedown", "", <<0, p[1], p[2]>>))
    /\ UNCHANGED <<rafScheduled, events>>

LiveMouseUp ==
  \E p \in LivePoints :
    /\ Becomes(processMouseEvent(This, 0, p[1], p[2], FALSE),
               Called("mouseup", "", <<0, p[1], p[2]>>))
    /\ UNCHANGED <<rafScheduled, events>>

LiveMouseMove ==
  \E p \in LivePoints :
    /\ Becomes(onMouseMove(This, p[1], p[2]), Called("mousemove", "", <<p[1], p[2]>>))
    /\ UNCHANGED <<rafScheduled, events>>

LiveKeyDown ==
  \E k \in LiveKeys :
    /\ Becomes(onKeyDown(This, k), Called("keydown", k, <<>>))
    /\ UNCHANGED <<rafScheduled, events>>

\* A frame in which the tick is due: processInput runs, and update requests
\* the next frame when processInput has returned.
LiveTick ==
  /\ rafScheduled
  /\ \E s \in {processInput(This)} :
       /\ Becomes(s, Called("tick", "", <<>>))
       /\ rafScheduled' = ~s.thrown
  /\ UNCHANGED events

LiveNext == LiveMouseDown \/ LiveMouseUp \/ LiveMouseMove \/ LiveKeyDown \/ LiveTick

LiveSpec == RadiusInit /\ [][LiveNext]_vars /\ WF_vars(LiveTick)

----------------------------------------------------------------------------
(* Properties.  In the states after a call, last names the call and pre is *)
(* the state it started from.                                              *)

\* The cell (column, row) that the pixel arguments of the last call fall in.
LastCol == MathFloorDiv(last.args[1] - JsRem(last.args[1], pre.cellLen), pre.cellLen)
LastRow == MathFloorDiv(last.args[2] - JsRem(last.args[2], pre.cellLen), pre.cellLen)

\* What a read of map[r][c] gives when it does not fail: the slot's code, or
\* UNDEFINED where the row or the slot is missing.
Stored(m, c, r) == IF HasRow(m, r) THEN CellAt(m, c, r) ELSE UNDEFINED

\* (c, r) is a stored cell of grid m: row r is present and slot c holds a code.
InExtent(m, c, r) == r >= 0 /\ r < m.length /\ HasRow(m, r) /\ c >= 0 /\ c < Len(m.rows[r])

\* C1: in every state reached from a well-formed map file by the editor's
\* events, the grid cell at the spawn position holds AIR.
C1_SpawnCellIsAir == Stored(map, spawnPos.x, spawnPos.y) = AIR

\* C2: after fillCell at the pixel of a cell (col, row) with col >= 0 and
\* row >= 0 and a registry type T, map[row][col] is T; a cell that was outside
\* the extent is inside it afterwards.
C2_FillCellWritesAndGrows ==
  (last.op = "fillCell" /\ last.args[1] >= 0 /\ last.args[2] >= 0)
    => /\ InExtent(map, LastCol, LastRow)
       /\ Stored(map, LastCol, LastRow) = CellDef(last.args[3]).type

\* C3: after fillCell on an in-bounds cell C, the celldata table holds exactly
\* one entry keyed by C, the fresh record {cell: C}, when the placed type has
\* the celldata flag (whether or not C had an entry before); and it holds no
\* entry keyed by C when a type without the flag has replaced one with it.
C3_CelldataFollowsFill ==
  (last.op = "fillCell" /\ InExtent(pre.map, LastCol, LastRow)
     /\ IsCellType(Stored(pre.map, LastCol, LastRow)))
    => /\ ~thrown
       /\ CellDef(last.args[3]).celldata
            => CelldataAt(celldata, LastCol, LastRow) =
                 <<[key |-> hash(LastCol, LastRow), val |-> [cell |-> Vector(LastCol, LastRow)]]>>
       /\ (~CellDef(last.args[3]).celldata /\ CellDef(Stored(pre.map, LastCol, LastRow)).celldata)
            => CelldataAt(celldata, LastCol, LastRow) = <<>>

\* A type with the celldata flag has replaced another one: C had an entry.
C3_Replaced ==
  /\ last.op = "fillCell"
  /\ InExtent(pre.map, LastCol, LastRow)
  /\ CellDef(last.args[3]).celldata
  /\ Stored(pre.map, LastCol, LastRow) \in celldataTypes \ {last.args[3]}
  /\ Len(CelldataAt(pre.celldata, LastCol, LastRow)) = 1
  /\ Len(CelldataAt(celldata, LastCol, LastRow)) = 1

\* C4: formatMap is idempotent: a formatMap called right after a formatMap
\* returns leaves the grid as the first call left it.
C4_FormatMapIdempotent ==
  (last.op = "formatMap" /\ events >= 2) => (~thrown /\ map = pre.map)

\* formatMap has run twice, the first time on a grid it had to change.
C4_SecondCall ==
  /\ last.op = "formatMap"
  /\ events = 2
  /\ map.length = MaxRows
  /\ GridWidth(map) = MaxCols
  /\ Stored(map, 0, 0) = GRASS

\* C5: when formatMap returns, every row index below the row count is
\* present, every row has the length of the longest row before the call, no
\* slot is undefined and the cell at the spawn position is AIR.
C5_FormatMapPost ==
  last.op = "formatMap"
    => /\ ~thrown
       /\ map.length = pre.map.length
       /\ \A i \in 0..(map.length - 1) :
            /\ HasRow(map, i)
            /\ Len(map.rows[i]) = GridWidth(pre.map)
            /\ \A c \in 1..Len(map.rows[i]) : IsCellType(map.rows[i][c])
       /\ Stored(map, spawnPos.x, spawnPos.y) = AIR

\* formatMap has run on a grid with a missing row, an undefined slot and a
\* code other than AIR under the spawn position.
C5_Irregular ==
  /\ last.op = "formatMap"
  /\ events = 1
  /\ \E i \in 0..(pre.map.length - 1) : ~HasRow(pre.map, i)
  /\ \E i \in 0..(pre.map.length - 1) :
       HasRow(pre.map, i) /\ \E c \in 1..Len(pre.map.rows[i]) : pre.map.rows[i][c] = UNDEFINED
  /\ Stored(pre.map, spawnPos.x, spawnPos.y) = GRASS

\* The canvas cells that show the spawn overlay colour.
Overlay(c) == {k \in DOMAIN c.pix : c.pix[k] = toColorString(SPAWN_POS_COLOR)}

\* The argument of the last setSpawnPos is outside [0, width) x [0, height)
\* of the grid the call started on.
SpawnArgOutside ==
  \/ last.args[1] < 0
  \/ last.args[2] < 0
  \/ last.args[1] >= GridWidth(pre.map)
  \/ last.args[2] >= pre.map.length

\* C6: setSpawnPos with a position outside the grid is a no-op: the spawn
\* position, the grid, the celldata table and the canvas are as before the
\* call, nothing has been drawn and nothing thrown.
C6_SetSpawnPosOutside ==
  (last.op = "setSpawnPos" /\ SpawnArgOutside)
    => /\ ~thrown
       /\ spawnPos = pre.spawnPos
       /\ map = pre.map
       /\ celldata = pre.celldata
       /\ canvas = pre.canvas
       /\ draws = <<>>

\* setSpawnPos was called with the column just right of the grid.
C6_FirstColumnOutside ==
  /\ last.op = "setSpawnPos"
  /\ last.args[1] = GridWidth(pre.map)
  /\ last.args[2] >= 0 /\ last.args[2] < pre.map.length
  /\ spawnPos = pre.spawnPos

\* C7: after setSpawnPos(p) with p inside the grid, started with exactly one
\* canvas cell in the overlay colour: spawnPos is p, the code stored at p is
\* AIR, the canvas cell of the previous spawn position shows the registry
\* colour of the code stored there, and the cell at p is the only one in the
\* overlay colour.
C7_SetSpawnPosInside ==
  (last.op = "setSpawnPos" /\ ~SpawnArgOutside /\ Cardinality(Overlay(pre.canvas)) = 1)
    => /\ ~thrown
       /\ spawnPos = Vector(last.args[1], last.args[2])
       /\ Stored(map, spawnPos.x, spawnPos.y) = AIR
       /\ pre.spawnPos # spawnPos
            => /\ IsCellType(Stored(map, pre.spawnPos.x, pre.spawnPos.y))
               /\ canvas.pix[<<pre.spawnPos.x, pre.spawnPos.y>>] =
                    toColorString(CellDef(Stored(map, pre.spawnPos.x, pre.spawnPos.y)).color)
       /\ Overlay(canvas) = {<<spawnPos.x, spawnPos.y>>}

\* The grid a loaded file gives and the grid in memory hold the same elements:
\* length and rows 0..length-1 (JSON carries nothing else of an array).
SameElements(m1, m2) ==
  /\ m1.length = m2.length
  /\ \A i \in 0..(m1.length - 1) :
       /\ HasRow(m1, i) <=> HasRow(m2, i)
       /\ HasRow(m1, i) => m1.rows[i] = m2.rows[i]

\* C8: round trip: the map payload that save downloads, loaded through the
\* constructor, gives the grid formatMap makes of the grid save started on,
\* and the spawn position save started on.
C8_SaveLoadRoundTrip ==
  (last.op = "keydown" /\ last.key = " ")
    => /\ ~thrown
       /\ Len(downloads) = 2
       /\ LET loaded == constructor(downloads[1].contents, downloads[2].contents)
          IN /\ ~loaded.thrown
             /\ SameElements(loaded.map, formatMap(pre).map)
             /\ loaded.spawnPos = pre.spawnPos

\* save has run on a grid that formatMap changes, with the spawn off the
\* diagonal.
C8_SavedIrregular ==
  /\ last.op = "keydown" /\ last.key = " "
  /\ Len(downloads) = 2
  /\ pre.map # formatMap(pre).map
  /\ pre.spawnPos.x # pre.spawnPos.y

\* The cells of the square of half-width pre.cursorRadius around the cell of
\* the last call's pixel.
LastSquare ==
  {<<c, r>> : c \in (LastCol - pre.cursorRadius)..(LastCol + pre.cursorRadius),
              r \in (LastRow - pre.cursorRadius)..(LastRow + pre.cursorRadius)}

\* The cells of [0, width) x [0, height) of grid m.
GridCells(m) == (0..(GridWidth(m) - 1)) \X (0..(m.length - 1))

\* The cells that the fillRect calls of the last handler painted.
PaintedCells ==
  {<<MathFloorDiv(draws[i].x, cellLen), MathFloorDiv(draws[i].y, cellLen)>> :
     i \in {k \in 1..Len(draws) : draws[k].op = "fillRect"}}

\* C9: after fillRegion with type T on a square that lies inside the grid,
\* the cells of the square hold T, every other cell of the grid is as before,
\* and only cells of the square and the spawn cell have been painted.
C9_FillRegionFrame ==
  (last.op = "fillRegion" /\ LastSquare \subseteq GridCells(pre.map))
    => /\ \A k \in LastSquare : Stored(map, k[1], k[2]) = CellDef(last.args[3]).type
       /\ \A k \in GridCells(pre.map) \ LastSquare :
            Stored(map, k[1], k[2]) = Stored(pre.map, k[1], k[2])
       /\ PaintedCells \subseteq LastSquare \cup {<<spawnPos.x, spawnPos.y>>}

\* C10: setCursorRadius(n) with n < 0 or n > 20 leaves cursorRadius as it was
\* and paints nothing; under the radius keys and direct calls cursorRadius
\* stays in 0..20.
C10_RadiusInRange ==
  /\ cursorRadius \in 0..20
  /\ (last.op = "setCursorRadius" /\ (last.args[1] < 0 \/ last.args[1] > 20))
       => /\ cursorRadius = pre.cursorRadius
          /\ canvas = pre.canvas
          /\ draws = <<>>
          /\ ~thrown

\* The plus key was pressed with the radius at 20.
C10_PlusAtTop ==
  /\ last.op = "keydown"
  /\ last.key = "+"
  /\ pre.cursorRadius = 20
  /\ cursorRadius = 20

\* The list of rows of the grid (which indices hold a row, the row count) or
\* the length of some row has changed during the last call.
TopologyChanged ==
  \/ map.length # pre.map.length
  \/ DOMAIN map.rows # DOMAIN pre.map.rows
  \/ \E i \in DOMAIN map.rows \cap DOMAIN pre.map.rows :
       Len(map.rows[i]) # Len(pre.map.rows[i])

\* The last handler has run repaintCanvas (it alone resizes the canvas).
FullyRepainted == \E i \in 1..Len(draws) : draws[i].op = "resize"

\* C11: a fillCell (at a pixel right of and below the origin) that changes the row count or the length of a row runs a
\* full repaint before it ends; a fillCell on a cell inside the extent changes
\* no row count and no row length, runs no full repaint and paints only that
\* cell.
C11_GrowthRepaints ==
  (last.op = "fillCell" /\ last.args[1] >= 0 /\ last.args[2] >= 0)
    => /\ TopologyChanged => FullyRepainted
       /\ InExtent(pre.map, LastCol, LastRow)
            => /\ ~TopologyChanged
               /\ ~FullyRepainted
               /\ Len(draws) = 1
               /\ draws[1].op = "fillRect"
               /\ draws[1].x = LastCol * cellLen
               /\ draws[1].y = LastRow * cellLen

\* C12: the grid never shrinks: over every handler the row count does not
\* decrease, no row disappears and no row gets shorter.
C12_NeverShrinks ==
  /\ map.length >= pre.map.length
  /\ \A i \in DOMAIN pre.map.rows :
       /\ i \in DOMAIN map.rows
       /\ Len(map.rows[i]) >= Len(pre.map.rows[i])

\* A save has padded a row that an earlier tick had added below the grid.
C12_RowPadded ==
  /\ last.op = "keydown" /\ last.key = " "
  /\ \E i \in DOMAIN pre.map.rows :
       i >= 2 /\ pre.map.rows[i] = <<>> /\ Len(map.rows[i]) > 0

\* C13: the map payload that save emits has a rectangular data grid without
\* an undefined (null) cell, holding only codes of the registry, with AIR at
\* payload.spawnPosition; it is built from the grid formatMap has normalised.
C13_SavedPayloadShape ==
  last.op = "save"
    => /\ ~thrown
       /\ Len(downloads) >= 1
       /\ LET payload == downloads[1].contents
              data == payload.data
          IN /\ downloads[1].fileName = "map.json"
             /\ data = stringifyMap(formatMap(pre).map)
             /\ Len(data) = pre.map.length
             /\ \A i, j \in 1..Len(data) : Len(data[i]) = Len(data[j])
             /\ \A i \in 1..Len(data) : \A c \in 1..Len(data[i]) : data[i][c] \in AIR..LAVA
             /\ payload.spawnPosition = pre.spawnPos
             /\ data[payload.spawnPosition.y + 1][payload.spawnPosition.x + 1] = AIR

\* save has run on a grid with an undefined slot inside a row.
C13_SavedWithHole ==
  /\ last.op = "save"
  /\ \E i \in 0..(pre.map.length - 1) :
       /\ HasRow(pre.map, i)
       /\ \E c \in 1..Len(pre.map.rows[i]) : pre.map.rows[i][c] = UNDEFINED
  /\ Len(downloads) = 2

\* C14: the celldata payload that save emits lists exactly the records of the
\* celldata table, one per cell, in ascending order of cell.y and, within a
\* row, of cell.x, whatever the order of the table.
C14_SavedCelldataSorted ==
  last.op = "save"
    => /\ Len(downloads) = 2
       /\ downloads[2].fileName = "mapCelldata.json"
       /\ LET list == downloads[2].contents.data
          IN /\ Len(list) = Len(celldata)
             /\ {list[i] : i \in 1..Len(list)} = {celldata[i].val : i \in 1..Len(celldata)}
             /\ \A i \in 1..Len(celldata) : celldata[i].key = hash(celldata[i].val.cell.x, celldata[i].val.cell.y)
             /\ \A i, j \in 1..Len(list) :
                  i < j => \/ list[i].cell.y < list[j].cell.y
                           \/ /\ list[i].cell.y = list[j].cell.y
                              /\ list[i].cell.x < list[j].cell.x

\* save has run with a table whose insertion order is not the sorted order:
\* an entry of a later row was created before one of an earlier row.
C14_SavedOutOfOrder ==
  /\ last.op = "save"
  /\ Len(downloads) = 2
  /\ \E i, j \in 1..Len(celldata) :
       i < j /\ celldata[i].val.cell.y > celldata[j].val.cell.y

\* The registry the bootstrap ran on has an entry out of place.
BootRegistryBroken ==
  \E i \in 1..Len(Registries[last.args[1]]) : Registries[last.args[1]][i].type # i - 1

\* Nothing is painted, no editor is constructed and no frame is requested.
NothingStarted ==
  /\ draws = <<>>
  /\ \A c \in DOMAIN canvas.pix : canvas.pix[c] = Transparent
  /\ map.length = 0
  /\ ~rafScheduled

\* C15: validateCellDefs throws during bootstrap exactly when the registry is
\* inconsistent; when it has thrown, nothing has been painted or constructed
\* and no later step changes anything (no constructor, no handler, no paint).
C15_FatalStartup ==
  /\ [](last.op = "validateCellDefs" => ((thrown <=> BootRegistryBroken) /\ NothingStarted))
  /\ [][(last.op = "validateCellDefs" /\ thrown) => UNCHANGED vars]_vars

\* The bootstrap has failed on the registry with two entries exchanged.
C15_BootFailed ==
  /\ last.op = "validateCellDefs"
  /\ last.args = <<2>>
  /\ thrown

\* Every cell of the set S is a stored cell of grid m that holds a code.
AllStored(m, S) == \A k \in S : InExtent(m, k[1], k[2]) /\ IsCellType(Stored(m, k[1], k[2]))

\* The last handler has filled the rectangle of cell (c, r) with the colour
\* of type T.
FilledWith(c, r, T) ==
  \E i \in 1..Len(draws) :
    /\ draws[i].op = "fillRect"
    /\ draws[i].x = c * cellLen
    /\ draws[i].y = r * cellLen
    /\ draws[i].style = toColorString(CellDef(T).color)

\* The grid is the normalised form of the grid the last method started on:
\* same row count, every row of the greatest row length, every code kept,
\* every missing slot AIR, and AIR at the spawn position.
NormalisedFromPre ==
  /\ map.length = pre.map.length
  /\ \A r \in 0..(map.length - 1) : HasRow(map, r) /\ Len(map.rows[r]) = GridWidth(pre.map)
  /\ \A k \in GridCells(pre.map) :
       Stored(map, k[1], k[2]) =
         IF k = <<pre.spawnPos.x, pre.spawnPos.y>> THEN AIR
         ELSE IF IsCellType(Stored(pre.map, k[1], k[2])) THEN Stored(pre.map, k[1], k[2])
         ELSE AIR

\* The fill methods on cells that hold a code write the grid and the canvas.
FillWritesBoth ==
  /\ (last.op = "fillCell" /\ AllStored(pre.map, {<<LastCol, LastRow>>}))
       => /\ Stored(map, LastCol, LastRow) = CellDef(last.args[3]).type
          /\ FilledWith(LastCol, LastRow, last.args[3])
  /\ (last.op = "fillRegion" /\ AllStored(pre.map, LastSquare))
       => \A k \in LastSquare :
            /\ Stored(map, k[1], k[2]) = CellDef(last.args[3]).type
            /\ FilledWith(k[1], k[2], last.args[3])

LastPointer ==
  IF last.op = "mousemove" THEN <<last.args[1], last.args[2]>>
  ELSE <<last.args[2], last.args[3]>>

\* C17: after the handler of a pointer-move, pointer-down or pointer-up event
\* at (x, y) with x >= 0 and y >= 0, input.clientX and input.clientY are x
\* and y.
C17_PointerPositionStored ==
  (last.op \in {"mousemove", "mousedown", "mouseup"} /\ LastPointer[1] >= 0 /\ LastPointer[2] >= 0)
    => /\ input.clientX = LastPointer[1]
       /\ input.clientY = LastPointer[2]

\* The editor is in state s, with the calls of s.draws as the last handler's.
SameAs(s) ==
  /\ map = s.map
  /\ spawnPos = s.spawnPos
  /\ cellLen = s.cellLen
  /\ cursorRadius = s.cursorRadius
  /\ input = s.input
  /\ celldata = s.celldata
  /\ canvas = s.canvas
  /\ draws = s.draws

\* The last handler has performed exactly one region pass with type T at the
\* pointer position, and nothing else.
OnePass(T) ==
  /\ IsCellType(T)
  /\ SameAs(fillRegion(pre, pre.input.clientX + scrollX, pre.input.clientY + scrollY, T))

\* The last handler has changed and drawn nothing.
NoPass ==
  /\ map = pre.map
  /\ spawnPos = pre.spawnPos
  /\ celldata = pre.celldata
  /\ canvas = pre.canvas
  /\ draws = <<>>

\* The cell under the pointer when the last handler started.
PointerCell ==
  Vector(MathFloorDiv(pre.input.clientX + scrollX, pre.cellLen),
         MathFloorDiv(pre.input.clientY + scrollY, pre.cellLen))

\* C18 as stated: a tick with a button held performs exactly one region pass
\* at the pointer (a place pass of the selection when the left button is
\* held, an erase pass when only the right one is); a tick with no button
\* held performs none and changes nothing.
C18_TickOnePass ==
  last.op = "tick"
    => /\ pre.input.leftPressed => OnePass(pre.input.selectedCell)
       /\ (~pre.input.leftPressed /\ pre.input.rightPressed) => OnePass(AIR)
       /\ (~pre.input.leftPressed /\ ~pre.input.rightPressed) => NoPass

\* C18: a tick with the left button held and a registry type selected
\* performs exactly one place pass of that type at the pointer; with the left
\* button held and the spawn selection it performs no region pass and calls
\* setSpawnPos with the pointer's cell; with only the right button held it
\* performs exactly one erase pass; with no button held it changes nothing.
C18_TickPassOrSpawn ==
  last.op = "tick"
    => /\ (pre.input.leftPressed /\ pre.input.selectedCell # SPAWN_POS)
            => OnePass(pre.input.selectedCell)
       /\ (pre.input.leftPressed /\ pre.input.selectedCell = SPAWN_POS)
            => SameAs(setSpawnPos(pre, PointerCell))
       /\ (~pre.input.leftPressed /\ pre.input.rightPressed) => OnePass(AIR)
       /\ (~pre.input.leftPressed /\ ~pre.input.rightPressed) => NoPass

\* A tick has run with the spawn selection and the left button held, and has
\* moved the spawn position.
C18_SpawnTick ==
  /\ last.op = "tick"
  /\ pre.input.leftPressed
  /\ pre.input.selectedCell = SPAWN_POS
  /\ spawnPos # pre.spawnPos

\* C19: from cellLen 10, under any sequence of wheel events cellLen stays in
\* 4..80; a wheel-down at 4 leaves it at 4 and a wheel-up at 80 leaves it at 80.
C19_CellLenClamped ==
  /\ cellLen \in 4..80
  /\ (last.op = "wheel" /\ last.args[1] > 0 /\ pre.cellLen = 4) => cellLen = 4
  /\ (last.op = "wheel" /\ last.args[1] <= 0 /\ pre.cellLen = 80) => cellLen = 80

\* The wheel was turned up with cellLen at 80.
C19_WheelUpAtTop ==
  /\ last.op = "wheel"
  /\ last.args[1] < 0
  /\ pre.cellLen = 80
  /\ cellLen = 80

\* The pointer's cell lies in [0, width) x [0, height) of the grid the last
\* handler started on.
PointerCellInside ==
  /\ PointerCell.x >= 0 /\ PointerCell.x < GridWidth(pre.map)
  /\ PointerCell.y >= 0 /\ PointerCell.y < pre.map.length

\* C20: the spawn selection code (SPAWN_POS = 999) is never stored: under
\* key selections, button presses, pointer moves and ticks every slot of the
\* grid that holds a value holds a code of the registry; a tick with the
\* spawn selection and the left button held performs no region pass (no cell
\* other than the pointer's changes, the celldata table is as before) and
\* acts as setSpawnPos on the pointer's cell: inside the grid the spawn
\* position moves there and the cell holds AIR, outside nothing changes.
C20_SentinelNeverStored ==
  /\ \A r \in DOMAIN map.rows : \A c \in 1..Len(map.rows[r]) :
       map.rows[r][c] # UNDEFINED => map.rows[r][c] \in 0..(Len(CELL_DEFNS) - 1)
  /\ (last.op = "tick" /\ pre.input.leftPressed /\ pre.input.selectedCell = SPAWN_POS)
       => /\ \A k \in GridCells(pre.map) \ {<<PointerCell.x, PointerCell.y>>} :
               Stored(map, k[1], k[2]) = Stored(pre.map, k[1], k[2])
          /\ celldata = pre.celldata
          /\ PointerCellInside
               => /\ spawnPos = PointerCell
                  /\ Stored(map, PointerCell.x, PointerCell.y) = AIR
          /\ ~PointerCellInside
               => /\ spawnPos = pre.spawnPos
                  /\ map = pre.map
                  /\ draws = <<>>

\* A tick with the spawn selection and the left button held has put the
\* spawn position on a cell that held another code than AIR.
C20_SpawnOverCode ==
  /\ last.op = "tick"
  /\ pre.input.leftPressed
  /\ pre.input.selectedCell = SPAWN_POS
  /\ PointerCellInside
  /\ Stored(pre.map, PointerCell.x, PointerCell.y) \in 1..(Len(CELL_DEFNS) - 1)
  /\ spawnPos = PointerCell
  /\ Stored(map, PointerCell.x, PointerCell.y) = AIR

\* The cells of the square of half-width cursorRadius around the pointer's
\* cell, as the last handler found them.
PointerSquare ==
  {<<c, r>> : c \in (PointerCell.x - pre.cursorRadius)..(PointerCell.x + pre.cursorRadius),
              r \in (PointerCell.y - pre.cursorRadius)..(PointerCell.y + pre.cursorRadius)}

\* C21: after a tick with only the right button held (an erase pass), every
\* cell of the square around the pointer's cell that lies inside the grid
\* bounds holds AIR and has no entry in the celldata table.
C21_ErasePassClears ==
  (last.op = "tick" /\ ~pre.input.leftPressed /\ pre.input.rightPressed)
    => \A k \in PointerSquare \cap GridCells(pre.map) :
         /\ Stored(map, k[1], k[2]) = AIR
         /\ CelldataAt(celldata, k[1], k[2]) = <<>>

\* C22: input.selectedCell changes only in the handler of a key-down of a key
\* of KEY_INPUTS (in either case), and then becomes the type the key maps
\* to; every other handler (tick, pointer, wheel, radius keys, save, a key
\* that is not mapped) leaves it as it was.
C22_SelectionOnlyByMappedKey ==
  \/ input.selectedCell = pre.input.selectedCell
  \/ /\ last.op = "keydown"
     /\ \E k \in DOMAIN KEY_INPUTS :
          /\ last.key \in {k, toUpperCase(k)}
          /\ input.selectedCell = KEY_INPUTS[k]

\* A key that is not mapped was pressed after the selection had been changed,
\* and the selection stayed.
C22_UnmappedKeyKeeps ==
  /\ last.op = "keydown"
  /\ last.key = "p"
  /\ pre.input.selectedCell \in {RESOURCE, SPAWN_POS}
  /\ input.selectedCell = pre.input.selectedCell

\* floor(p / L) for the pixel coordinates of the last call.
FloorCol == MathFloorDiv(last.args[1], pre.cellLen)
FloorRow == MathFloorDiv(last.args[2], pre.cellLen)

\* C23: fillCell at pixel (x, y), negative coordinates included, addresses
\* the cell (floor(x / cellLen), floor(y / cellLen)), the cell Math.floor
\* gives in repaintRegion and processInput: when the call returns, that cell
\* holds the type and its rectangle has been filled.
C23_FillCellFloors ==
  (last.op = "fillCell" /\ ~thrown)
    => /\ Stored(map, FloorCol, FloorRow) = CellDef(last.args[3]).type
       /\ FilledWith(FloorCol, FloorRow, last.args[3])

\* C24: fillRegion with type T on a square that lies only partly inside the
\* grid raises no error, and every cell of the square that was inside the
\* grid bounds when the scan started holds T afterwards (the placements that
\* fail do not undo the others).
C24_BestEffortFill ==
  (/\ last.op = "fillRegion"
   /\ LastSquare \cap GridCells(pre.map) # {}
   /\ ~(LastSquare \subseteq GridCells(pre.map)))
    => /\ ~thrown
       /\ \A k \in LastSquare \cap GridCells(pre.map) :
            Stored(map, k[1], k[2]) = CellDef(last.args[3]).type

\* The colour the canvas shows at cell (c, r); nothing outside the canvas.
PixAt(c, r) == IF <<c, r>> \in DOMAIN canvas.pix THEN canvas.pix[<<c, r>>] ELSE Transparent

\* C25: when fillRegion, repaintRegion, repaintCanvas or a setSpawnPos that
\* the guard accepts has returned, the canvas cell at the spawn position
\* shows the spawn overlay colour.
C25_OverlayOnTop ==
  (/\ ~thrown
   /\ \/ last.op \in {"fillRegion", "repaintRegion", "repaintCanvas"}
      \/ last.op = "setSpawnPos" /\ ~SpawnArgOutside)
    => PixAt(spawnPos.x, spawnPos.y) = toColorString(SPAWN_POS_COLOR)

\* C26: repaintCanvas normalises the grid, then issues, in this order: the
\* resize to (greatest row length x cellLen, row count x cellLen), the clear,
\* one fillRect per grid cell in row-major order with the registry colour of
\* the cell's code, the fillRect of the spawn overlay, the stroke of the
\* cursor outline.  Afterwards the canvas has that size and every cell but
\* the spawn cell shows the registry colour of its code.
C26_RepaintCanvasOrder ==
  last.op = "repaintCanvas"
    => LET w == GridWidth(pre.map)
           h == pre.map.length
           n == w * h
       IN /\ ~thrown
          /\ NormalisedFromPre
          /\ Len(draws) = n + 4
          /\ draws[1] = DrawCall("resize", 0, 0, w * cellLen, h * cellLen, "")
          /\ draws[2] = DrawCall("clearRect", 0, 0, w * cellLen, h * cellLen, "")
          /\ \A r \in 0..(h - 1) : \A c \in 0..(w - 1) :
               draws[2 + r * w + c + 1] =
                 DrawCall("fillRect", c * cellLen, r * cellLen, cellLen, cellLen,
                          toColorString(CellDef(Stored(map, c, r)).color))
          /\ draws[n + 3] = DrawCall("fillRect", spawnPos.x * cellLen, spawnPos.y * cellLen,
                                     cellLen, cellLen, toColorString(SPAWN_POS_COLOR))
          /\ draws[n + 4].op = "strokeRect"
          /\ canvas.width = w * cellLen
          /\ canvas.height = h * cellLen
          /\ \A k \in GridCells(map) \ {<<spawnPos.x, spawnPos.y>>} :
               PixAt(k[1], k[2]) = toColorString(CellDef(Stored(map, k[1], k[2])).color)

\* repaintCanvas has run on a grid that had grown by a row and has resized
\* the canvas to it.
C26_ResizedToGrownGrid ==
  /\ last.op = "repaintCanvas"
  /\ map.length = 3
  /\ pre.canvas.height = 2 * cellLen
  /\ canvas.height = 3 * cellLen

\* C27: a full repaint happens only in a handler that has changed the grid's
\* extent or the cell pixel size (the first one is the constructor's): a
\* wheel event that leaves cellLen at its clamped value and a pointer event
\* cause none.
C27_RepaintOnlyOnChange ==
  FullyRepainted => (last.op = "constructor" \/ TopologyChanged \/ cellLen # pre.cellLen)

\* The cells of the grid the last call started on that hold a code and lie
\* within cursorRadius + 10 cells, in each axis, of the cell of the pixel the
\* call was given.
CellsInReach ==
  {k \in GridCells(pre.map) :
     /\ IsCellType(Stored(pre.map, k[1], k[2]))
     /\ k[1] \in (FloorCol - (pre.cursorRadius + 10))..(FloorCol + (pre.cursorRadius + 10))
     /\ k[2] \in (FloorRow - (pre.cursorRadius + 10))..(FloorRow + (pre.cursorRadius + 10))}

\* C28: repaintRegion raises no error and leaves grid, spawn position and
\* celldata as they were; it fills the rectangle of every cell in reach with
\* the registry colour of the cell's code, fills no other rectangle (none
\* outside the grid bounds), and ends with the spawn overlay.
C28_RepaintRegionFrame ==
  last.op = "repaintRegion"
    => /\ ~thrown
       /\ map = pre.map
       /\ spawnPos = pre.spawnPos
       /\ celldata = pre.celldata
       /\ Len(draws) >= 1
       /\ draws[Len(draws)] = DrawCall("fillRect", spawnPos.x * cellLen, spawnPos.y * cellLen,
                                       cellLen, cellLen, toColorString(SPAWN_POS_COLOR))
       /\ \A k \in CellsInReach :
            \E i \in 1..(Len(draws) - 1) :
              draws[i] = DrawCall("fillRect", k[1] * cellLen, k[2] * cellLen, cellLen, cellLen,
                                  toColorString(CellDef(Stored(map, k[1], k[2])).color))
       /\ \A i \in 1..(Len(draws) - 1) :
            \E k \in CellsInReach :
              draws[i] = DrawCall("fillRect", k[1] * cellLen, k[2] * cellLen, cellLen, cellLen,
                                  toColorString(CellDef(Stored(map, k[1], k[2])).color))

\* repaintRegion was called so far to the right that it has painted a part of
\* the grid's cells only.
C28_PartlyInReach ==
  /\ last.op = "repaintRegion"
  /\ CellsInReach # {}
  /\ \E k \in GridCells(pre.map) : IsCellType(Stored(pre.map, k[1], k[2])) /\ k \notin CellsInReach
  /\ Len(draws) = Cardinality(CellsInReach) + 1

\* The cell under the pointer in the current state.
CursorCell ==
  Vector(MathFloorDiv(input.clientX + scrollX, cellLen),
         MathFloorDiv(input.clientY + scrollY, cellLen))

\* The cells around the pointer's cell, one ring wider than the cursor square,
\* together with the cells of the grid.
CursorUniverse ==
  ((CursorCell.x - cursorRadius - 1)..(CursorCell.x + cursorRadius + 1))
    \X ((CursorCell.y - cursorRadius - 1)..(CursorCell.y + cursorRadius + 1))
  \cup GridCells(map)

\* The cells whose rectangle lies inside the rectangle of drawing call d.
CoveredBy(d) ==
  {k \in CursorUniverse :
     /\ d.x <= k[1] * cellLen /\ (k[1] + 1) * cellLen <= d.x + d.w
     /\ d.y <= k[2] * cellLen /\ (k[2] + 1) * cellLen <= d.y + d.h}

\* The cells a fillRegion with type T at the pointer position would write in
\* the current state.
WouldWrite(T) ==
  LET s == fillRegion(This, input.clientX + scrollX, input.clientY + scrollY, T)
  IN {k \in CursorUniverse : Stored(s.map, k[1], k[2]) = T /\ Stored(map, k[1], k[2]) # T}

C30_FormatMapKeepsCodes ==
  last.op = "formatMap"
    => /\ map.length = pre.map.length
       /\ \A k \in GridCells(map) :
            Stored(map, k[1], k[2]) =
              IF k # <<pre.spawnPos.x, pre.spawnPos.y>> /\ IsCellType(Stored(pre.map, k[1], k[2]))
              THEN Stored(pre.map, k[1], k[2])
              ELSE AIR
       /\ (pre.map \in FormatExamples /\ pre.spawnPos = Vector(0, 0))
            => map.rows = (0 :> <<AIR, GRASS>> @@ 1 :> <<DIRT, AIR>>)

\* formatMap has run on the grid [[1,1],[2,0]] with spawn (0,0).
C30_Scenario ==
  /\ last.op = "formatMap"
  /\ events = 1
  /\ pre.map \in FormatExamples
  /\ pre.spawnPos = Vector(0, 0)
  /\ map # pre.map

\* The celldata table cd has an entry for a cell exactly when grid m holds,
\* at that cell, a code of a type with the celldata flag.
AuxConsistent(m, cd) ==
  \A k \in GridCells(m) \cup {<<cd[i].val.cell.x, cd[i].val.cell.y>> : i \in 1..Len(cd)} :
    (CelldataAt(cd, k[1], k[2]) # <<>>)
      <=> (IsCellType(Stored(m, k[1], k[2])) /\ CellDef(Stored(m, k[1], k[2])).celldata)

\* C31: fillCell, fillRegion, setSpawnPos, formatMap, the full repaint and
\* save keep the celldata table consistent with the grid: started in a state
\* where a cell has an entry exactly when its code requires one, each of them
\* ends in such a state.
C31_AuxTableConsistent ==
  (/\ last.op \in {"fillCell", "fillRegion", "setSpawnPos", "formatMap", "setCellLen", "save"}
   /\ AuxConsistent(pre.map, pre.celldata))
    => AuxConsistent(map, celldata)


\* The records of the companion file the editor was constructed with.
LoadedRecords == {InitCelldataFile.data[i] : i \in 1..Len(InitCelldataFile.data)}

\* The table cd holds record rec, with all its fields, under its cell's key.
HoldsRecord(cd, rec) ==
  CelldataAt(cd, rec.cell.x, rec.cell.y) = <<[key |-> hash(rec.cell.x, rec.cell.y), val |-> rec]>>

\* C32: a full repaint does not alter celldata records: every record loaded
\* from the companion file is in the table, unchanged, after the
\* constructor's repaintCanvas, and a loaded record that is in the table when
\* a zoom starts is still there, unchanged, after the zoom's repaintCanvas.
C32_RepaintKeepsRecords ==
  /\ last.op = "constructor" => \A rec \in LoadedRecords : HoldsRecord(celldata, rec)
  /\ last.op = "wheel" =>
       \A rec \in LoadedRecords : HoldsRecord(pre.celldata, rec) => HoldsRecord(celldata, rec)


\* C33: after every operation that has run to completion, each cell of the
\* grid that holds a code, other than the spawn cell, shows on the canvas the
\* registry colour of that code.
C33_NoStalePixels ==
  ~thrown =>
    \A k \in GridCells(map) \ {<<spawnPos.x, spawnPos.y>>} :
      IsCellType(Stored(map, k[1], k[2]))
        => PixAt(k[1], k[2]) = toColorString(CellDef(Stored(map, k[1], k[2])).color)


\* C34: no event handler and no tick of the editor, started on a well-formed
\* map file, ends with an uncaught error, and the input loop stays scheduled.
C34_NoUncaughtError == ~thrown /\ rafScheduled


\* The last handler was a pointer listener, a keydown that selects a type,
\* or a keydown that changes the radius.
InputOnlyHandler ==
  \/ last.op \in {"mousedown", "mouseup", "mousemove"}
  \/ last.op = "keydown" /\ last.key # " "

\* C35: the mousedown, mouseup and mousemove listeners and the keydown
\* listener on a type key or a radius key leave the grid, the spawn position
\* and the celldata table as they were; the grid differs from the one a
\* handler started on only after a tick, or after a save or a zoom, and then
\* after a save or a zoom it is the normalised form of the grid before.
C35_InputHandlersKeepGrid ==
  /\ InputOnlyHandler
       => (map = pre.map /\ spawnPos = pre.spawnPos /\ celldata = pre.celldata)
  /\ map # pre.map
       => \/ last.op = "tick"
          \/ /\ last.op = "wheel" \/ (last.op = "keydown" /\ last.key = " ")
             /\ map = formatMap(pre).map

\* The left button has gone down over a cell of the grid with a type selected
\* that the cell does not hold, and the listener has repainted the cursor.
C35_PressedOverOtherType ==
  /\ last.op = "mousedown"
  /\ ~pre.input.leftPressed
  /\ input.leftPressed
  /\ IsCellType(input.selectedCell)
  /\ InExtent(map, CursorCell.x, CursorCell.y)
  /\ Stored(map, CursorCell.x, CursorCell.y) # input.selectedCell
  /\ Len(draws) > 0


\* No call of the last handler filled a rectangle in the colour of AIR.
NothingErased ==
  \A i \in 1..Len(draws) :
    draws[i].op = "fillRect" => draws[i].style # toColorString(CellDef(AIR).color)

\* C36: a tick that finds both the left and the right button held does the
\* work of the left button: with a registry type selected, exactly one place
\* pass of that type at the pointer and no cell painted as AIR; with the
\* spawn selection, setSpawnPos with the pointer's cell and no region pass.
C36_LeftButtonFirst ==
  (last.op = "tick" /\ pre.input.leftPressed /\ pre.input.rightPressed)
    => /\ IsCellType(pre.input.selectedCell)
            => (OnePass(pre.input.selectedCell) /\ NothingErased)
       /\ pre.input.selectedCell = SPAWN_POS
            => SameAs(setSpawnPos(pre, PointerCell))

\* A tick with both buttons held and a type selected has written the type
\* into a cell that an erase pass would have left AIR.
C36_BothHeldPlaced ==
  /\ last.op = "tick"
  /\ pre.input.leftPressed
  /\ pre.input.rightPressed
  /\ IsCellType(pre.input.selectedCell)
  /\ \E k \in PointerSquare :
       /\ Stored(pre.map, k[1], k[2]) = AIR
       /\ Stored(map, k[1], k[2]) = pre.input.selectedCell


\* How many times the last handler entered repaintCanvas (each entry assigns
\* the canvas size once).
Repaints == Cardinality({i \in 1..Len(draws) : draws[i].op = "resize"})

\* C37: every fillCell at a cell (col, row) with col >= 0 and row >= 0 runs to
\* its end and enters repaintCanvas at most once; when the cell was outside
\* the extent, it enters repaintCanvas exactly once and leaves the grid
\* normalised, so that the repaint's own fillCell calls start no repaint.
C37_FillCellRepaintsOnce ==
  (last.op = "fillCell" /\ last.args[1] >= 0 /\ last.args[2] >= 0)
    => /\ ~thrown
       /\ Repaints <= 1
       /\ ~InExtent(pre.map, LastCol, LastRow)
            => (Repaints = 1 /\ map = formatMap(This).map)


\* The cells under the pointer positions and the types the keys select.
LiveCells == {<<p[1] \div initialCellLen, p[2] \div initialCellLen>> : p \in LivePoints}
LiveTypes == {KEY_INPUTS[k] : k \in LiveKeys} \ {SPAWN_POS}

\* The left button is held with type T selected and the pointer is over the
\* stored cell c.
HeldOver(c, T) ==
  /\ input.leftPressed
  /\ input.selectedCell = T
  /\ CursorCell = Vector(c[1], c[2])
  /\ InExtent(map, c[1], c[2])

\* C38: while frames keep firing, a left button that stays held with a
\* registry type T selected and the pointer over a stored cell c leads to the
\* grid holding T at c; and the input loop is scheduled in every state.
C38_HeldPlaces ==
  /\ \A c \in LiveCells : \A T \in LiveTypes :
       HeldOver(c, T) ~> (Stored(map, c[1], c[2]) = T \/ ~HeldOver(c, T))
  /\ []rafScheduled

====
